---- MODULE Spec2Model ----
(***************************************************************************)
(* Job lifecycle and conversational state machine of the WhatsApp print    *)
(* bot (src/bot.js, class EnhancedWhatsAppPrintBot).                       *)
(*                                                                         *)
(* Every inbound message starts one run of the async handleMessage; the    *)
(* 'message' listener does not wait for the previous run, so runs          *)
(* interleave at their await points.  A run is a handler slot with a       *)
(* program counter naming the await it is suspended at.  One action is     *)
(* the code between two awaits.                                            *)
(***************************************************************************)
EXTENDS Integers, Sequences, FiniteSets, TLC

\* ------------------------------------------------------------------ bounds
MaxMsgs          == 3   \* inbound messages in one behaviour of Spec
MaxDialogueMsgs  == 4   \* inbound messages in one behaviour of SpecDialogue
MaxActive        == 2   \* message handlers suspended at the same time
MaxJobs          == 2   \* print jobs created in one behaviour of Spec
MaxDialogueJobs  == 1   \* print jobs created in one behaviour of SpecDialogue
MaxPages         == 3   \* page count the File Inspector reports
MaxTicks         == 1   \* clock advances in one behaviour
MaxDefaultCopies == 2   \* largest configured defaultCopies
MaxSubmitMsgs    == 3   \* inbound messages in one behaviour of SpecSubmit
MaxSubmitActive  == 1   \* handlers suspended at the same time in SpecSubmit
MaxSubmitJobs    == 1   \* print jobs created in one behaviour of SpecSubmit
MaxSubmitTicks   == 1   \* clock advances in one behaviour of SpecSubmit
MaxCancelMsgs    == 4   \* inbound messages in one behaviour of SpecCancel
MaxSessionMsgs   == 2   \* inbound messages in one behaviour of SpecSessions
MaxSessionTicks  == 2   \* clock advances in one behaviour of SpecSessions
MaxSweepTicks    == 2   \* clock advances in one behaviour of SpecSweep
MaxCopiesMsgs    == 6   \* inbound messages in one behaviour of SpecCopies
MaxDuplexMsgs    == 6   \* inbound messages in one behaviour of SpecDuplex
MaxDuplexTicks   == 2   \* clock advances in one behaviour of SpecDuplex
MaxIdleMsgs      == 4   \* inbound messages in one behaviour of SpecIdle
MaxIdleTicks     == 2   \* clock advances in one behaviour of SpecIdle
MaxParallelMsgs  == 6   \* inbound messages in one behaviour of SpecParallel
MaxParallelTicks == 1   \* clock advances in one behaviour of SpecParallel
MaxAbandonMsgs   == 2   \* inbound messages in one behaviour of SpecAbandon
MaxAbandonTicks  == 2   \* clock advances in one behaviour of SpecAbandon
MaxRangeMsgs     == 6   \* inbound messages in one behaviour of SpecRange
MaxHistoryJobs   == 101 \* print jobs created in one behaviour of SpecHistory
MaxRateMsgs      == 5   \* inbound messages in one behaviour of SpecRate
MaxRateTicks     == 3   \* clock advances in one behaviour of SpecRate
MaxRequestsPerHour == 2 \* largest configured maxRequestsPerHour

\* ------------------------------------------------------- program constants
bwCostPerPage    == 500
colorCostPerPage == 2000
maxRetries       == 3
HistoryCap       == 100
CleanupDelay     == 300000
HourMs           == 60 * 60 * 1000
SessionTimeout   == 900000     \* 15 * 60 * 1000
maxAge           == 3600000    \* 60 * 60 * 1000

NoTime == -1            \* an unset Date field (undefined in the source)

Chats == {"u1@c.us", "u2@c.us"}

\* message.from.replace('@c.us', '')
UserNumber(chatId) == IF chatId = "u1@c.us" THEN "u1" ELSE "u2"

\* parseInt(response) converts the leading decimal digits of the text and
\* ignores what follows them; without a leading digit it gives NaN, for
\* which 0 - 1 stands
NaN == 0 - 1
ParseInt(response) ==
    CASE response = "0" -> 0
      [] response = "1" -> 1
      [] response = "2" -> 2
      [] response = "3" -> 3
      [] response = "4" -> 4
      [] response = "5" -> 5
      [] response = "6" -> 6
      [] response = "7" -> 7
      [] response = "8" -> 8
      [] response = "9" -> 9
      [] response = "10" -> 10
      [] response = "11" -> 11
      [] response = "7x" -> 7
      [] response = "2.5" -> 2
      [] OTHER -> NaN

\* String(n) for the numbers a sender may type
Digits(n) ==
    CASE n = 0 -> "0" [] n = 1 -> "1" [] n = 2 -> "2" [] n = 3 -> "3"
      [] n = 4 -> "4" [] n = 5 -> "5" [] n = 6 -> "6" [] n = 7 -> "7"
      [] n = 8 -> "8" [] n = 9 -> "9" [] n = 10 -> "10" [] n = 11 -> "11"

VARIABLES
    now,            \* Date.now()
    ticks,          \* number of clock advances so far
    config,         \* this.config (fixed after construction)
    jobs,           \* the printJob objects ever created, by reference
    printOptions,   \* the printOptions object of each printJob object
    printQueue,     \* this.printQueue : job id -> reference
    userSessions,   \* this.userSessions : chatId -> session
    userStats,      \* this.userStats : userNumber -> stats
    rateLimit,      \* this.rateLimit : userNumber -> timestamps
    printHistory,   \* this.printHistory
    printerStatus,  \* this.printerStatus
    timers,         \* pending setTimeout(cleanupPrintJob) callbacks
    handlers,       \* the suspended runs of handleMessage, oldest first
    msgCount,       \* inbound messages so far
    running,        \* the process has not exited
    printCalls,     \* per job object: calls of executePrint so far
    admitted,       \* per user: times at which checkRateLimit returned true
    files,          \* the paths of the files present in temp/
    swept,          \* sessions and jobs the periodic sweeps removed so far,
                    \* and the times of the last job and session sweeps
    handled,        \* per conversation: the time at which a handler last
                    \* set the session step after a recognised input
    statsFile       \* logs/stats.json: whether it was written, and the
                    \* userStats it was written from

vars == <<now, ticks, config, jobs, printOptions, printQueue, userSessions,
          userStats, rateLimit, printHistory, printerStatus, timers,
          handlers, msgCount, running, printCalls, admitted, files,
          swept, handled, statsFile>>

Has(map, key) == key \in DOMAIN map

Put(map, key, val) == (key :> val) @@ map

Remove(map, key) == [k \in (DOMAIN map) \ {key} |-> map[k]]

\* ------------------------------------------------------ pure functions
calculatePrintCost(pageCount, hasColor) ==
    LET costPerPage == IF hasColor THEN colorCostPerPage ELSE bwCostPerPage
    IN  pageCount * costPerPage

isAdmin(userNumber) == userNumber \in config.adminNumbers

\* the list checkRateLimit leaves in this.rateLimit and its result
RecentRequests(userNumber, t) ==
    LET userRequests == IF Has(rateLimit, userNumber)
                        THEN rateLimit[userNumber] ELSE <<>>
        hourAgo == t - HourMs
    IN  SelectSeq(userRequests, LAMBDA timestamp : timestamp > hourAgo)

\* the cap compared with <= : one request too many is let through
RateLimitAllowsOffByOne(userNumber, t) ==
    Len(RecentRequests(userNumber, t)) <= config.maxRequestsPerHour

RateLimitAllows(userNumber, t) ==
    Len(RecentRequests(userNumber, t)) < config.maxRequestsPerHour

\* the timestamp pushed before the cap is tested: a denied request is
\* recorded too
checkRateLimitStoreAlways(userNumber, t) ==
    Put(rateLimit, userNumber, Append(RecentRequests(userNumber, t), t))

checkRateLimitStore(userNumber, t) ==
    LET recentRequests == RecentRequests(userNumber, t)
    IN  IF RateLimitAllows(userNumber, t)
        THEN Put(rateLimit, userNumber, Append(recentRequests, t))
        ELSE Put(rateLimit, userNumber, recentRequests)

updateUserStats(userNumber) ==
    LET stats == IF Has(userStats, userNumber) THEN userStats[userNumber]
                 ELSE [totalRequests |-> 0, totalPrints |-> 0,
                       totalPages |-> 0, firstSeen |-> now, lastSeen |-> now]
    IN  Put(userStats, userNumber,
            [stats EXCEPT !.totalRequests = @ + 1, !.lastSeen = now])


\* ------------------------------------------------------------ initial state
\* State after the constructor: empty maps, printer assumed online.
InitStores ==
    /\ now = 0
    /\ ticks = 0
    /\ jobs = <<>>
    /\ printOptions = <<>>
    /\ printQueue = <<>>
    /\ userSessions = <<>>
    /\ userStats = <<>>
    /\ rateLimit = <<>>
    /\ printHistory = <<>>
    /\ printerStatus = [online |-> TRUE, lastCheck |-> 0]
    /\ timers = {}
    /\ handlers = <<>>
    /\ msgCount = 0
    /\ running = TRUE
    /\ printCalls = <<>>
    /\ admitted = <<>>
    /\ files = {}
    /\ swept = [sessions |-> 0, jobs |-> 0, jobSweepAt |-> NoTime,
                sessionSweepAt |-> NoTime]
    /\ handled = <<>>
    /\ statsFile = [written |-> FALSE, userStats |-> <<>>]

Init ==
    /\ InitStores
    /\ config \in [defaultCopies : {1},
                   enableRateLimit : {FALSE},
                   maxRequestsPerHour : {50},
                   adminNumbers : {{}}]

\* --------------------------------------------------------- message arrival
Run(chatId, pc, printJobId, ref) ==
    [pc |-> pc, chat |-> chatId, jobId |-> printJobId, job |-> ref,
     attempt |-> 0, outcomes |-> <<>>]

\* a listener that took the next message only when no handler is suspended
CanReceiveOneAtATime == running /\ handlers = <<>>

\* client.on('message', ...): the emitter calls the listener for every
\* message and does not wait for the promise of an earlier call
CanReceive == running

\* the test of handleMessage without its isAdmin conjunct: admins are rate
\* limited like everyone else
LimitedAdminsToo(chatId) == config.enableRateLimit

Limited(chatId) == config.enableRateLimit /\ ~isAdmin(UserNumber(chatId))

\* handleMessage up to and including updateUserStats, for an admitted message
Admitted(chatId) ==
    LET userNumber == UserNumber(chatId)
    IN  /\ CanReceive
        /\ Limited(chatId) => RateLimitAllows(userNumber, now)
        /\ msgCount' = msgCount + 1
        /\ rateLimit' = IF Limited(chatId)
                        THEN checkRateLimitStore(userNumber, now)
                        ELSE rateLimit
        /\ admitted' = IF Limited(chatId)
                       THEN Put(admitted, userNumber,
                                Append(IF Has(admitted, userNumber)
                                       THEN admitted[userNumber] ELSE <<>>,
                                       now))
                       ELSE admitted
        /\ userStats' = updateUserStats(userNumber)

\* handleMessage, rate limit reached: reply and return
handleMessageDenied(chatId) ==
    LET userNumber == UserNumber(chatId)
    IN  /\ CanReceive
        /\ Limited(chatId)
        /\ ~RateLimitAllows(userNumber, now)
        /\ msgCount' = msgCount + 1
        /\ rateLimit' = checkRateLimitStore(userNumber, now)
        /\ handlers' = Append(handlers, Run(chatId, "reply_end", NoTime, 0))
        /\ UNCHANGED <<now, ticks, config, jobs, printOptions, printQueue,
                       userSessions, userStats, printHistory, printerStatus,
                       timers, running, printCalls, admitted, files, swept,
                       handled, statsFile>>

\* handleMessage -> handleCommand for /help, /start, /history, /formats
handleCommand(chatId) ==
    /\ Admitted(chatId)
    /\ handlers' = Append(handlers, Run(chatId, "reply_end", NoTime, 0))
    /\ UNCHANGED <<now, ticks, config, jobs, printOptions, printQueue,
                   userSessions, printHistory, printerStatus, timers, running,
                   printCalls, files, swept, handled, statsFile>>

\* A call of a method the class does not define (cancelPrintJob,
\* showQualityOptions, showPaperSizeOptions, sendPrintStatus, ...) throws a
\* TypeError that no handler catches: the run ends, and the rejection
\* either only warns or ends the process, depending on the runtime.
Escapes(chatId) ==
    /\ Admitted(chatId)
    /\ running' \in BOOLEAN
    /\ handlers' = handlers
    /\ UNCHANGED <<now, ticks, config, jobs, printOptions, printQueue,
                   userSessions, printHistory, printerStatus, timers,
                   printCalls, files, swept, handled, statsFile>>

\* handleMessage -> handleCommand for /cancel, /status, /queue, /settings
handleCommandUndefined(chatId) == Escapes(chatId)

\* handleMessage -> handleFileMessage up to its first await
handleFileMessage(chatId) ==
    /\ Admitted(chatId)
    /\ handlers' = Append(handlers, Run(chatId, "hfm_download", NoTime, 0))
    /\ UNCHANGED <<now, ticks, config, jobs, printOptions, printQueue,
                   userSessions, printHistory, printerStatus, timers, running,
                   printCalls, files, swept, handled, statsFile>>

\* handleMessage -> sendHelpMessage (text, no session for the chat)
sendHelpMessage(chatId) ==
    /\ ~Has(userSessions, chatId)
    /\ Admitted(chatId)
    /\ handlers' = Append(handlers, Run(chatId, "reply_end", NoTime, 0))
    /\ UNCHANGED <<now, ticks, config, jobs, printOptions, printQueue,
                   userSessions, printHistory, printerStatus, timers, running,
                   printCalls, files, swept, handled, statsFile>>


\* ------------------------------------------- handleUserResponse, by step
Confirming  == {"ya", "y", "yes", "ok"}
Cancelling  == {"batal", "cancel", "no", "tidak"}
OptionWords == {"opsi", "option", "setting"}

\* showPrintOptions up to its first await: the await it suspends at
showPrintOptionsPc(printJobId) ==
    IF Has(printQueue, printJobId) THEN "spo_reply" ELSE "notfound_reply"

\* confirm_print + YA -> processPrintJob up to its first await
processPrintJobStart(chatId, response) ==
    /\ Has(userSessions, chatId)
    /\ userSessions[chatId].step = "confirm_print"
    /\ response \in Confirming
    /\ Admitted(chatId)
    /\ LET printJobId == userSessions[chatId].printJobId
       IN  IF Has(printQueue, printJobId)
           THEN LET ref == printQueue[printJobId]
                IN  /\ jobs' = [jobs EXCEPT ![ref].status = "printing",
                                            ![ref].startedAt = now]
                    /\ handlers' = Append(handlers, Run(chatId, "ppj_check", printJobId, ref))
           ELSE /\ jobs' = jobs
                /\ handlers' = Append(handlers, Run(chatId, "ppj_notfound", printJobId, 0))
    /\ UNCHANGED <<now, ticks, config, printOptions, printQueue, userSessions,
                   printHistory, printerStatus, timers, running, printCalls,
                   files, swept, handled, statsFile>>

\* confirm_print + BATAL -> this.cancelPrintJob, which is not defined
cancelPrintJob(chatId, response) ==
    /\ Has(userSessions, chatId)
    /\ userSessions[chatId].step = "confirm_print"
    /\ response \in Cancelling
    /\ Escapes(chatId)

\* confirm_print + OPSI -> showPrintOptions up to its first await
confirmPrintOptions(chatId, response) ==
    /\ Has(userSessions, chatId)
    /\ userSessions[chatId].step = "confirm_print"
    /\ response \in OptionWords
    /\ Admitted(chatId)
    /\ LET printJobId == userSessions[chatId].printJobId
       IN  handlers' = Append(handlers, Run(chatId, showPrintOptionsPc(printJobId), printJobId, 0))
    /\ UNCHANGED <<now, ticks, config, jobs, printOptions, printQueue,
                   userSessions, printHistory, printerStatus, timers, running,
                   printCalls, files, swept, handled, statsFile>>

\* confirm_print + anything else: reply and return
confirmPrintInvalid(chatId, response) ==
    /\ Has(userSessions, chatId)
    /\ userSessions[chatId].step = "confirm_print"
    /\ response \notin Confirming \cup Cancelling \cup OptionWords
    /\ Admitted(chatId)
    /\ handlers' = Append(handlers, Run(chatId, "reply_end", NoTime, 0))
    /\ UNCHANGED <<now, ticks, config, jobs, printOptions, printQueue,
                   userSessions, printHistory, printerStatus, timers, running,
                   printCalls, files, swept, handled, statsFile>>

\* the test without its upper bound: any number from 1 on is accepted
invalidCopiesNoUpperBound(copies) == copies = NaN \/ copies < 1

\* handleCopiesInput: isNaN(copies) || copies < 1 || copies > 10
invalidCopies(copies) == copies = NaN \/ copies < 1 \/ copies > 10

\* set_copies -> handleCopiesInput up to its first await
handleCopiesInput(chatId, response) ==
    /\ Has(userSessions, chatId)
    /\ userSessions[chatId].step = "set_copies"
    /\ Admitted(chatId)
    /\ LET printJobId == userSessions[chatId].printJobId
           copies == ParseInt(response)
       IN  IF ~Has(printQueue, printJobId)
           THEN /\ jobs' = jobs
                /\ handlers' = Append(handlers, Run(chatId, "notfound_reply", printJobId, 0))
           ELSE IF invalidCopies(copies)
           THEN /\ jobs' = jobs
                /\ handlers' = Append(handlers, Run(chatId, "reply_end", printJobId, 0))
           ELSE LET ref == printQueue[printJobId]
                IN  /\ jobs' = [jobs EXCEPT
                          ![ref].copies = copies,
                          ![ref].estimatedCost =
                              calculatePrintCost(jobs[ref].pageCount,
                                                 printOptions[ref].color)
                              * copies]
                    /\ handlers' = Append(handlers, Run(chatId, "hci_reply", printJobId, ref))
    /\ UNCHANGED <<now, ticks, config, printOptions, printQueue, userSessions,
                   printHistory, printerStatus, timers, running, printCalls,
                   files, swept, handled, statsFile>>

\* case '4' without the negation: duplex is switched on
toggleDuplexOn(options) == [options EXCEPT !.duplex = TRUE]

\* handleOptionsInput case '4': duplex = !duplex
toggleDuplex(options) == [options EXCEPT !.duplex = ~options.duplex]

\* set_options -> handleOptionsInput up to its first await, except 2 and 3
handleOptionsInput(chatId, response) ==
    /\ Has(userSessions, chatId)
    /\ userSessions[chatId].step = "set_options"
    /\ LET printJobId == userSessions[chatId].printJobId
       IN  Has(printQueue, printJobId) => response \notin {"2", "3"}
    /\ Admitted(chatId)
    /\ LET printJobId == userSessions[chatId].printJobId
           ref == printQueue[printJobId]
       IN  IF ~Has(printQueue, printJobId)
           THEN /\ printOptions' = printOptions
                /\ handlers' = Append(handlers, Run(chatId, "notfound_reply", printJobId, 0))
           ELSE CASE response = "1" ->
                       /\ printOptions' = printOptions
                       /\ handlers' = Append(handlers, Run(chatId, "hoi_copies_reply", printJobId, ref))
                  [] response = "4" ->
                       /\ printOptions' = [printOptions EXCEPT
                             ![ref] = toggleDuplex(printOptions[ref])]
                       /\ handlers' = Append(handlers, Run(chatId, "hoi_duplex_reply", printJobId, ref))
                  [] response = "5" ->
                       /\ printOptions' = printOptions
                       /\ handlers' = Append(handlers, Run(chatId, "suc_reply", printJobId, ref))
                  [] OTHER ->
                       /\ printOptions' = printOptions
                       /\ handlers' = Append(handlers, Run(chatId, "reply_end", printJobId, 0))
    /\ UNCHANGED <<now, ticks, config, jobs, printQueue, userSessions,
                   printHistory, printerStatus, timers, running, printCalls,
                   files, swept, handled, statsFile>>

\* set_options + 2 or 3 -> this.showQualityOptions / this.showPaperSizeOptions,
\* which are not defined
showQualityOrPaperSize(chatId, response) ==
    /\ Has(userSessions, chatId)
    /\ userSessions[chatId].step = "set_options"
    /\ Has(printQueue, userSessions[chatId].printJobId)
    /\ response \in {"2", "3"}
    /\ Escapes(chatId)


\* ------------------------------------------------- resumptions of a handler
At(h, pc) == running /\ h \in DOMAIN handlers /\ handlers[h].pc = pc

Goto(h, pc) == handlers' = [handlers EXCEPT ![h].pc = pc]

Done(h) ==
    handlers' = SubSeq(handlers, 1, h - 1) \o SubSeq(handlers, h + 1, Len(handlers))

\* userSessions.set without a new lastActivity: an existing session keeps
\* the one it has
SetSessionKeepsActivity(chatId, step, printJobId) ==
    userSessions' = Put(userSessions, chatId,
                        [step |-> step, printJobId |-> printJobId,
                         lastActivity |-> IF Has(userSessions, chatId)
                                          THEN userSessions[chatId].lastActivity
                                          ELSE now])

\* userSessions.set(chatId, {step, printJobId, lastActivity: Date.now()})
SetSession(chatId, step, printJobId) ==
    userSessions' = Put(userSessions, chatId,
                        [step |-> step, printJobId |-> printJobId,
                         lastActivity |-> now])

\* a final message.reply resolves and the handler returns; "notfound_reply"
\* is the reply of a handler that did not find the job of the session
replyEnd(h) ==
    /\ At(h, "reply_end") \/ At(h, "notfound_reply")
    /\ Done(h)
    /\ UNCHANGED <<now, ticks, config, jobs, printOptions, printQueue,
                   userSessions, userStats, rateLimit, printHistory,
                   printerStatus, timers, msgCount, running, printCalls,
                   admitted, files, swept, handled, statsFile>>

\* handleFileMessage: download, validation and analysis are over; the job is
\* built and stored under the id Date.now().toString()
createPrintJob(h, pageCount, hasColor) ==
    /\ At(h, "hfm_download")
    /\ LET ref == Len(jobs) + 1
           chatId == handlers[h].chat
           filePath == <<UserNumber(chatId), now>>
           printJob == [id |-> now,
                        filePath |-> filePath,
                        pageCount |-> pageCount,
                        chatId |-> chatId,
                        userNumber |-> UserNumber(chatId),
                        status |-> "pending",
                        copies |-> config.defaultCopies,
                        createdAt |-> now,
                        startedAt |-> NoTime,
                        completedAt |-> NoTime,
                        failedAt |-> NoTime,
                        estimatedCost |->
                            calculatePrintCost(pageCount, hasColor)]
       IN  /\ files' = files \cup {filePath}
           /\ jobs' = Append(jobs, printJob)
           /\ printOptions' = Append(printOptions,
                                 [color |-> hasColor, duplex |-> FALSE,
                                  paperSize |-> "A4", quality |-> "normal"])
           /\ printCalls' = Append(printCalls, 0)
           /\ printQueue' = Put(printQueue, printJob.id, ref)
           /\ handlers' = [handlers EXCEPT ![h].pc = "hfm_confirm",
                                           ![h].jobId = printJob.id,
                                           ![h].job = ref]
    /\ UNCHANGED <<now, ticks, config, userSessions, userStats, rateLimit,
                   printHistory, printerStatus, timers, msgCount, running,
                   admitted, swept, handled, statsFile>>

\* handleFileMessage: download failed or validateFile rejected the file
rejectFile(h) ==
    /\ At(h, "hfm_download")
    /\ Goto(h, "reply_end")
    /\ UNCHANGED <<now, ticks, config, jobs, printOptions, printQueue,
                   userSessions, userStats, rateLimit, printHistory,
                   printerStatus, timers, msgCount, running, printCalls,
                   admitted, files, swept, handled, statsFile>>

\* handleFileMessage: an await inside its try block rejects
fileError(h) ==
    /\ At(h, "hfm_download") \/ At(h, "hfm_confirm")
    /\ Goto(h, "reply_end")
    /\ UNCHANGED <<now, ticks, config, jobs, printOptions, printQueue,
                   userSessions, userStats, rateLimit, printHistory,
                   printerStatus, timers, msgCount, running, printCalls,
                   admitted, files, swept, handled, statsFile>>

\* handleFileMessage: the confirmation was sent, the session is created
startSession(h) ==
    /\ At(h, "hfm_confirm")
    /\ SetSession(handlers[h].chat, "confirm_print", handlers[h].jobId)
    /\ Done(h)
    /\ UNCHANGED <<now, ticks, config, jobs, printOptions, printQueue,
                   userStats, rateLimit, printHistory, printerStatus, timers,
                   msgCount, running, printCalls, admitted, files, swept,
                   handled, statsFile>>

\* showPrintOptions after its reply
showPrintOptions(h) ==
    /\ At(h, "spo_reply")
    /\ SetSession(handlers[h].chat, "set_options", handlers[h].jobId)
    /\ handled' = Put(handled, handlers[h].chat, now)
    /\ Done(h)
    /\ UNCHANGED <<now, ticks, config, jobs, printOptions, printQueue,
                   userStats, rateLimit, printHistory, printerStatus, timers,
                   msgCount, running, printCalls, admitted, files, swept,
                   statsFile>>

\* handleOptionsInput case '1' after its reply
askCopies(h) ==
    /\ At(h, "hoi_copies_reply")
    /\ SetSession(handlers[h].chat, "set_copies", handlers[h].jobId)
    /\ handled' = Put(handled, handlers[h].chat, now)
    /\ Done(h)
    /\ UNCHANGED <<now, ticks, config, jobs, printOptions, printQueue,
                   userStats, rateLimit, printHistory, printerStatus, timers,
                   msgCount, running, printCalls, admitted, files, swept,
                   statsFile>>

\* handleOptionsInput case '4' and handleCopiesInput after their reply:
\* showPrintOptions is entered and looks the job up again
reshowPrintOptions(h) ==
    /\ At(h, "hoi_duplex_reply") \/ At(h, "hci_reply")
    /\ Goto(h, showPrintOptionsPc(handlers[h].jobId))
    /\ UNCHANGED <<now, ticks, config, jobs, printOptions, printQueue,
                   userSessions, userStats, rateLimit, printHistory,
                   printerStatus, timers, msgCount, running, printCalls,
                   admitted, files, swept, handled, statsFile>>

\* showUpdatedConfirmation after its reply
showUpdatedConfirmation(h) ==
    /\ At(h, "suc_reply")
    /\ SetSession(handlers[h].chat, "confirm_print", handlers[h].jobId)
    /\ handled' = Put(handled, handlers[h].chat, now)
    /\ Done(h)
    /\ UNCHANGED <<now, ticks, config, jobs, printOptions, printQueue,
                   userStats, rateLimit, printHistory, printerStatus, timers,
                   msgCount, running, printCalls, admitted, files, swept,
                   statsFile>>


\* ------------------------------------------------------- processPrintJob
\* job missing at confirmation: reply, delete the session, return
jobNotFound(h) ==
    /\ At(h, "ppj_notfound")
    /\ userSessions' = Remove(userSessions, handlers[h].chat)
    /\ Done(h)
    /\ UNCHANGED <<now, ticks, config, jobs, printOptions, printQueue,
                   userStats, rateLimit, printHistory, printerStatus, timers,
                   msgCount, running, printCalls, admitted, files, swept,
                   handled, statsFile>>

\* the return of the offline branch left out
afterCheckPrinterNoReturn(printerOnline) == "ppj_sending"

\* where processPrintJob continues after the health check
afterCheckPrinter(printerOnline) ==
    IF ~printerOnline THEN "ppj_offline" ELSE "ppj_sending"

\* the "processing" reply resolved and checkPrinter resolves with what the
\* exec of lpstat / Get-Printer showed
checkPrinter(h, isOnline) ==
    /\ At(h, "ppj_check")
    /\ printerStatus' = [online |-> isOnline, lastCheck |-> now]
    /\ jobs' = IF ~isOnline
               THEN [jobs EXCEPT ![handlers[h].job].status = "failed"]
               ELSE jobs
    /\ Goto(h, afterCheckPrinter(isOnline))
    /\ UNCHANGED <<now, ticks, config, printOptions, printQueue, userSessions,
                   userStats, rateLimit, printHistory, timers, msgCount,
                   running, printCalls, admitted, files, swept, handled,
                   statsFile>>

\* printer offline: the edit resolved and processPrintJob returns from
\* inside its try block
offlineReturn(h) ==
    /\ At(h, "ppj_offline")
    /\ Done(h)
    /\ UNCHANGED <<now, ticks, config, jobs, printOptions, printQueue,
                   userSessions, userStats, rateLimit, printHistory,
                   printerStatus, timers, msgCount, running, printCalls,
                   admitted, files, swept, handled, statsFile>>

\* executePrint is called: one exec of the print command
executePrint(h) ==
    /\ printCalls' = [printCalls EXCEPT ![handlers[h].job] = @ + 1]
    /\ handlers' = [handlers EXCEPT ![h].pc = "ppj_print",
                                    ![h].attempt = @ + 1]

\* executePrintWithRetry is entered: attempt 1
firstAttempt(h) ==
    /\ At(h, "ppj_sending")
    /\ executePrint(h)
    /\ UNCHANGED <<now, ticks, config, jobs, printOptions, printQueue,
                   userSessions, userStats, rateLimit, printHistory,
                   printerStatus, timers, msgCount, running, admitted, files,
                   swept, handled, statsFile>>

\* the 2000 ms timer between attempts fired: next attempt
nextAttempt(h) ==
    /\ At(h, "ppj_delay")
    /\ executePrint(h)
    /\ UNCHANGED <<now, ticks, config, jobs, printOptions, printQueue,
                   userSessions, userStats, rateLimit, printHistory,
                   printerStatus, timers, msgCount, running, admitted, files,
                   swept, handled, statsFile>>

\* userStats update of a completed job
creditPrint(userNumber, printJob) ==
    IF Has(userStats, userNumber)
    THEN [userStats EXCEPT
            ![userNumber].totalPrints = @ + 1,
            ![userNumber].totalPages = @ + printJob.pageCount * printJob.copies]
    ELSE userStats

\* unshift without the slice: the list grows past the cap
unshiftHistoryUncapped(entry) == <<entry>> \o printHistory

\* printHistory.unshift(entry) followed by the slice to 100
unshiftHistory(entry) ==
    LET longer == <<entry>> \o printHistory
    IN  IF Len(longer) > HistoryCap THEN SubSeq(longer, 1, HistoryCap)
        ELSE longer

\* {...printJob, completedAt}: a copy of the fields, the printOptions object
\* itself is shared with the live job
historyEntry(printJob, ref) == [job |-> printJob, printOptions |-> ref]

\* the print command exited without error: executePrintWithRetry returns
\* true and processPrintJob records the completion
printSucceeded(h) ==
    /\ At(h, "ppj_print")
    /\ LET ref == handlers[h].job
           printJob == [jobs[ref] EXCEPT !.status = "completed",
                                         !.completedAt = now]
       IN  /\ jobs' = [jobs EXCEPT ![ref] = printJob]
           /\ userStats' = creditPrint(UserNumber(handlers[h].chat), printJob)
           /\ printHistory' = unshiftHistory(historyEntry(printJob, ref))
    /\ handlers' = [handlers EXCEPT ![h].pc = "ppj_success",
                                    ![h].outcomes = Append(@, TRUE)]
    /\ UNCHANGED <<now, ticks, config, printOptions, printQueue, userSessions,
                   rateLimit, printerStatus, timers, msgCount, running,
                   printCalls, admitted, files, swept, handled, statsFile>>

\* the loop bound compared with <= : a fourth attempt
moreAttemptsOffByOne(attempt) == attempt <= maxRetries

\* executePrintWithRetry: the loop goes on after a failed attempt
moreAttempts(attempt) == attempt < maxRetries

\* the print command failed or timed out
printFailed(h) ==
    /\ At(h, "ppj_print")
    /\ IF moreAttempts(handlers[h].attempt)
       THEN /\ jobs' = jobs
            /\ handlers' = [handlers EXCEPT ![h].pc = "ppj_delay",
                                            ![h].outcomes = Append(@, FALSE)]
       ELSE /\ jobs' = [jobs EXCEPT ![handlers[h].job].status = "failed",
                                    ![handlers[h].job].failedAt = now]
            /\ handlers' = [handlers EXCEPT ![h].pc = "ppj_failed",
                                            ![h].outcomes = Append(@, FALSE)]
    /\ UNCHANGED <<now, ticks, config, printOptions, printQueue, userSessions,
                   userStats, rateLimit, printHistory, printerStatus, timers,
                   msgCount, running, printCalls, admitted, files, swept,
                   handled, statsFile>>

\* an await inside the try block of processPrintJob rejects: catch block
TryAwaits == {"ppj_check", "ppj_offline", "ppj_sending", "ppj_success",
              "ppj_failed"}

systemError(h) ==
    /\ running
    /\ h \in DOMAIN handlers
    /\ handlers[h].pc \in TryAwaits
    /\ jobs' = [jobs EXCEPT ![handlers[h].job].status = "failed"]
    /\ Goto(h, "ppj_catch")
    /\ UNCHANGED <<now, ticks, config, printOptions, printQueue, userSessions,
                   userStats, rateLimit, printHistory, printerStatus, timers,
                   msgCount, running, printCalls, admitted, files, swept,
                   handled, statsFile>>

\* the message.reply of the catch block rejects: the rejection leaves
\* processPrintJob, handleUserResponse, handleMessage and the listener, none
\* of which catches it, and either only warns or ends the process
catchReplyRejects(h) ==
    /\ At(h, "ppj_catch")
    /\ running' \in BOOLEAN
    /\ Done(h)
    /\ UNCHANGED <<now, ticks, config, jobs, printOptions, printQueue,
                   userSessions, userStats, rateLimit, printHistory,
                   printerStatus, timers, msgCount, printCalls, admitted,
                   files, swept, handled, statsFile>>

\* the last reply or edit resolved: session deleted, removal scheduled
finishPrintJob(h) ==
    /\ At(h, "ppj_success") \/ At(h, "ppj_failed") \/ At(h, "ppj_catch")
    /\ userSessions' = Remove(userSessions, handlers[h].chat)
    /\ timers' = timers \cup {[printJobId |-> handlers[h].jobId,
                               due |-> now + CleanupDelay]}
    /\ Done(h)
    /\ UNCHANGED <<now, ticks, config, jobs, printOptions, printQueue,
                   userStats, rateLimit, printHistory, printerStatus, msgCount,
                   running, printCalls, admitted, files, swept, handled,
                   statsFile>>

\* cleanupPrintJob(printJobId) where unlinkSync does not throw: the printQueue
\* and the files it leaves
cleanupPrintJobQueue(printJobId) == Remove(printQueue, printJobId)

cleanupPrintJobFiles(printJobId) ==
    IF Has(printQueue, printJobId)
    THEN files \ {jobs[printQueue[printJobId]].filePath}
    ELSE files

\* the deferred setTimeout fires: cleanupPrintJob(printJobId)
cleanupPrintJob(timer) ==
    /\ running
    /\ timer \in timers
    /\ now >= timer.due
    /\ timers' = timers \ {timer}
    /\ printQueue' = cleanupPrintJobQueue(timer.printJobId)
    /\ files' = cleanupPrintJobFiles(timer.printJobId)
    /\ UNCHANGED <<now, ticks, config, jobs, printOptions, userSessions,
                   userStats, rateLimit, printHistory, printerStatus, handlers,
                   msgCount, running, printCalls, admitted, swept, handled,
                   statsFile>>

\* the deferred setTimeout fires and unlinkSync throws: the catch block logs,
\* printQueue.delete is skipped
cleanupPrintJobThrows(timer) ==
    /\ running
    /\ timer \in timers
    /\ now >= timer.due
    /\ Has(printQueue, timer.printJobId)
    /\ jobs[printQueue[timer.printJobId]].filePath \in files
    /\ timers' = timers \ {timer}
    /\ UNCHANGED <<now, ticks, config, jobs, printOptions, printQueue,
                   userSessions, userStats, rateLimit, printHistory,
                   printerStatus, handlers, msgCount, running, printCalls,
                   admitted, files, swept, handled, statsFile>>

\* the test of cleanupOldSessions with >= : a session idle for exactly the
\* timeout is swept too
sessionExpiredAtTimeout(t, session) == t - session.lastActivity >= SessionTimeout

\* cleanupOldSessions: now - session.lastActivity > timeout
sessionExpired(t, session) == t - session.lastActivity > SessionTimeout

\* the five-minute interval fires: cleanupOldSessions()
cleanupOldSessions ==
    /\ running
    /\ LET kept == {chatId \in DOMAIN userSessions :
                       ~sessionExpired(now, userSessions[chatId])}
       IN  /\ userSessions' = [chatId \in kept |-> userSessions[chatId]]
           /\ swept' = [swept EXCEPT !.sessions =
                           @ + Cardinality(DOMAIN userSessions \ kept),
                                     !.sessionSweepAt = now]
    /\ UNCHANGED <<now, ticks, config, jobs, printOptions, printQueue,
                   userStats, rateLimit, printHistory, printerStatus, timers,
                   handlers, msgCount, running, printCalls, admitted, files,
                   handled, statsFile>>

\* cleanupOldPrintJobs: the jobs it hands to cleanupPrintJob
oldPrintJobs(t) ==
    {jobId \in DOMAIN printQueue :
        /\ t - jobs[printQueue[jobId]].createdAt > maxAge
        /\ jobs[printQueue[jobId]].status \in {"completed", "failed"}}

\* the half-hourly interval fires: cleanupOldPrintJobs(); throwing are the
\* jobs for which unlinkSync throws, so that cleanupPrintJob logs the error
\* and skips printQueue.delete
cleanupOldPrintJobs(throwing) ==
    /\ running
    /\ throwing \subseteq {jobId \in oldPrintJobs(now) :
                              jobs[printQueue[jobId]].filePath \in files}
    /\ LET removed == oldPrintJobs(now) \ throwing
       IN  /\ printQueue' = [jobId \in (DOMAIN printQueue) \ removed |->
                                printQueue[jobId]]
           /\ files' = files \ {jobs[printQueue[jobId]].filePath :
                                    jobId \in removed}
           /\ swept' = [swept EXCEPT !.jobs = @ + Cardinality(removed),
                                     !.jobSweepAt = now]
    /\ UNCHANGED <<now, ticks, config, jobs, printOptions, userSessions,
                   userStats, rateLimit, printHistory, printerStatus, timers,
                   handlers, msgCount, running, printCalls, admitted, handled,
                   statsFile>>

\* saveStats(): the snapshot written to logs/stats.json
statsSnapshot == [written |-> TRUE, userStats |-> userStats]

\* the hourly interval fires: saveStats()
saveStats ==
    /\ running
    /\ statsFile' = statsSnapshot
    /\ UNCHANGED <<now, ticks, config, jobs, printOptions, printQueue,
                   userSessions, userStats, rateLimit, printHistory,
                   printerStatus, timers, handlers, msgCount, running,
                   printCalls, admitted, files, swept, handled>>

\* SIGINT or SIGTERM: shutdown() saves the stats, clears printQueue and
\* userSessions, destroys the client and calls process.exit(0)
shutdown ==
    /\ running
    /\ statsFile' = statsSnapshot
    /\ printQueue' = <<>>
    /\ userSessions' = <<>>
    /\ running' = FALSE
    /\ UNCHANGED <<now, ticks, config, jobs, printOptions, userStats,
                   rateLimit, printHistory, printerStatus, timers, handlers,
                   msgCount, printCalls, admitted, files, swept, handled>>

\* process.on('uncaughtException'): the error is logged and process.exit(1)
\* is called
uncaughtException ==
    /\ running
    /\ running' = FALSE
    /\ UNCHANGED <<now, ticks, config, jobs, printOptions, printQueue,
                   userSessions, userStats, rateLimit, printHistory,
                   printerStatus, timers, handlers, msgCount, printCalls,
                   admitted, files, swept, handled, statsFile>>

\* time passes
Tick(d) ==
    /\ running
    /\ ticks' = ticks + 1
    /\ now' = now + d
    /\ UNCHANGED <<config, jobs, printOptions, printQueue, userSessions,
                   userStats, rateLimit, printHistory, printerStatus, timers,
                   handlers, msgCount, running, printCalls, admitted, files,
                   swept, handled, statsFile>>


\* ------------------------------------------------------------ specification
\* Execution engine: two conversations upload files and confirm them; every
\* run may be suspended while others arrive.
Execute(h) ==
    \/ \E isOnline \in BOOLEAN : checkPrinter(h, isOnline)
    \/ offlineReturn(h)
    \/ firstAttempt(h)
    \/ nextAttempt(h)
    \/ printSucceeded(h)
    \/ printFailed(h)
    \/ systemError(h)
    \/ finishPrintJob(h)

Upload(h) ==
    \/ replyEnd(h)
    \/ rejectFile(h)
    \/ fileError(h)
    \/ startSession(h)

Next ==
    \/ /\ msgCount < MaxMsgs
       /\ Len(handlers) < MaxActive
       /\ \E chatId \in Chats :
            \/ handleFileMessage(chatId)
            \/ processPrintJobStart(chatId, "ya")
    \/ \E h \in DOMAIN handlers :
         \/ Upload(h)
         \/ Execute(h)
         \/ Len(jobs) < MaxJobs /\ createPrintJob(h, MaxPages, FALSE)
    \/ \E timer \in timers : cleanupPrintJob(timer)
    \/ ticks < MaxTicks /\ Tick(CleanupDelay)

Spec == Init /\ [][Next]_vars

\* Submission: one conversation uploads files and confirms them.
NextSubmit ==
    \/ /\ msgCount < MaxSubmitMsgs
       /\ Len(handlers) < MaxSubmitActive
       /\ \/ handleFileMessage("u1@c.us")
          \/ processPrintJobStart("u1@c.us", "ya")
    \/ \E h \in DOMAIN handlers :
         \/ Upload(h)
         \/ Execute(h)
         \/ Len(jobs) < MaxSubmitJobs /\ createPrintJob(h, MaxPages, FALSE)
    \/ \E timer \in timers : cleanupPrintJob(timer)
    \/ ticks < MaxSubmitTicks /\ Tick(CleanupDelay)

SpecSubmit == Init /\ [][NextSubmit]_vars

\* Faults: one conversation uploads files and confirms them; any reply or
\* edit of the submission may reject, the one of its catch block included.
NextFault ==
    \/ /\ msgCount < MaxSubmitMsgs
       /\ Len(handlers) < MaxSubmitActive
       /\ \/ handleFileMessage("u1@c.us")
          \/ processPrintJobStart("u1@c.us", "ya")
    \/ \E h \in DOMAIN handlers :
         \/ Upload(h)
         \/ Execute(h)
         \/ catchReplyRejects(h)
         \/ Len(jobs) < MaxSubmitJobs /\ createPrintJob(h, MaxPages, FALSE)
    \/ \E timer \in timers : cleanupPrintJob(timer)
    \/ ticks < MaxSubmitTicks /\ Tick(CleanupDelay)

SpecFault == Init /\ [][NextFault]_vars

\* Shutdown: one conversation uploads files and confirms them; the stats are
\* saved from time to time, and the process is ended by a signal or by an
\* uncaught exception.
NextCrash ==
    \/ /\ msgCount < MaxSubmitMsgs
       /\ Len(handlers) < MaxSubmitActive
       /\ \/ handleFileMessage("u1@c.us")
          \/ processPrintJobStart("u1@c.us", "ya")
    \/ \E h \in DOMAIN handlers :
         \/ Upload(h)
         \/ Execute(h)
         \/ Len(jobs) < MaxSubmitJobs /\ createPrintJob(h, MaxPages, FALSE)
    \/ \E timer \in timers : cleanupPrintJob(timer)
    \/ saveStats
    \/ shutdown
    \/ uncaughtException
    \/ ticks < MaxSubmitTicks /\ Tick(CleanupDelay)

SpecCrash == Init /\ [][NextCrash]_vars

\* Cancellation: two conversations upload files, answer BATAL and send the
\* commands whose methods the class does not define.
NextCancel ==
    \/ /\ msgCount < MaxCancelMsgs
       /\ Len(handlers) < MaxActive
       /\ \E chatId \in Chats :
            \/ handleFileMessage(chatId)
            \/ cancelPrintJob(chatId, "batal")
            \/ handleCommandUndefined(chatId)
    \/ \E h \in DOMAIN handlers :
         \/ Upload(h)
         \/ Len(jobs) < MaxJobs /\ createPrintJob(h, MaxPages, FALSE)
    \/ ticks < MaxTicks /\ Tick(CleanupDelay)

SpecCancel == Init /\ [][NextCancel]_vars

\* Session sweep: one conversation uploads files;
\* the clock moves by one millisecond or by the idle timeout.
NextSessions ==
    \/ /\ msgCount < MaxSessionMsgs
       /\ handleFileMessage("u1@c.us")
    \/ \E h \in DOMAIN handlers :
         \/ Upload(h)
         \/ createPrintJob(h, MaxPages, FALSE)
    \/ cleanupOldSessions
    \/ ticks < MaxSessionTicks /\ \E d \in {1, SessionTimeout} : Tick(d)

SpecSessions == Init /\ [][NextSessions]_vars

\* Job sweep: one conversation uploads files and confirms them; the clock
\* moves by one millisecond or by the maximal age of a finished job.
NextSweep ==
    \/ /\ msgCount < MaxSubmitMsgs
       /\ Len(handlers) < MaxSubmitActive
       /\ \/ handleFileMessage("u1@c.us")
          \/ processPrintJobStart("u1@c.us", "ya")
    \/ \E h \in DOMAIN handlers :
         \/ Upload(h)
         \/ Execute(h)
         \/ Len(jobs) < MaxSubmitJobs /\ createPrintJob(h, MaxPages, FALSE)
    \/ \E timer \in timers :
         \/ cleanupPrintJob(timer)
         \/ cleanupPrintJobThrows(timer)
    \/ \E throwing \in SUBSET DOMAIN printQueue : cleanupOldPrintJobs(throwing)
    \/ ticks < MaxSweepTicks /\ \E d \in {1, maxAge} : Tick(d)

SpecSweep == Init /\ [][NextSweep]_vars

\* Option negotiation: one conversation configures and confirms one job; the
\* configured defaultCopies varies.
InitDialogue ==
    /\ InitStores
    /\ config \in [defaultCopies : 1 .. MaxDefaultCopies,
                   enableRateLimit : {FALSE},
                   maxRequestsPerHour : {50},
                   adminNumbers : {{}}]

ConfirmBodies == {"ya", "opsi"}
OptionBodies  == {"1", "4", "5"}
CopiesBodies  == {"7", "x"}

Dialogue(chatId) ==
    \/ handleFileMessage(chatId)
    \/ \E response \in ConfirmBodies :
         \/ processPrintJobStart(chatId, response)
         \/ confirmPrintOptions(chatId, response)
    \/ \E response \in OptionBodies : handleOptionsInput(chatId, response)
    \/ \E response \in CopiesBodies : handleCopiesInput(chatId, response)

Negotiate(h) ==
    \/ showPrintOptions(h)
    \/ askCopies(h)
    \/ reshowPrintOptions(h)
    \/ showUpdatedConfirmation(h)

NextDialogue ==
    \/ /\ msgCount < MaxDialogueMsgs
       /\ Len(handlers) < MaxActive
       /\ Dialogue("u1@c.us")
    \/ \E h \in DOMAIN handlers :
         \/ Upload(h)
         \/ Negotiate(h)
         \/ Execute(h)
         \/ /\ Len(jobs) < MaxDialogueJobs
            /\ \E hasColor \in BOOLEAN : createPrintJob(h, MaxPages, hasColor)
    \/ \E timer \in timers : cleanupPrintJob(timer)
    \/ ticks < MaxTicks /\ Tick(CleanupDelay)

SpecDialogue == InitDialogue /\ [][NextDialogue]_vars


\* Copies input: one conversation uploads files, confirms them, walks
\* through the option menu and types a number of copies; one handler runs at
\* a time.
NextCopies ==
    \/ /\ msgCount < MaxCopiesMsgs
       /\ handlers = <<>>
       /\ \/ handleFileMessage("u1@c.us")
          \/ processPrintJobStart("u1@c.us", "ya")
          \/ confirmPrintOptions("u1@c.us", "opsi")
          \/ confirmPrintInvalid("u1@c.us", "x")
          \/ \E response \in {"1", "5", "9"} :
               handleOptionsInput("u1@c.us", response)
          \/ \E response \in {"2", "3"} :
               showQualityOrPaperSize("u1@c.us", response)
          \/ \E n \in {1, 10, 11} : handleCopiesInput("u1@c.us", Digits(n))
          \/ \E response \in {"x", "7x"} :
               handleCopiesInput("u1@c.us", response)
    \/ \E h \in DOMAIN handlers :
         \/ Upload(h)
         \/ Negotiate(h)
         \/ Execute(h)
         \/ Len(jobs) < MaxJobs /\ createPrintJob(h, MaxPages, FALSE)
    \/ \E timer \in timers : cleanupPrintJob(timer)
    \/ ticks < MaxTicks /\ Tick(CleanupDelay)

SpecCopies == Init /\ [][NextCopies]_vars


\* Progress of submissions: one conversation uploads files, confirms them
\* and sends commands whose methods the class does not define; every await
\* of a handler that is still running eventually resolves.
NextLive ==
    \/ /\ msgCount < MaxMsgs
       /\ Len(handlers) < MaxActive
       /\ \/ handleFileMessage("u1@c.us")
          \/ processPrintJobStart("u1@c.us", "ya")
          \/ handleCommandUndefined("u1@c.us")
    \/ \E h \in DOMAIN handlers :
         \/ Upload(h)
         \/ Execute(h)
         \/ Len(jobs) < MaxJobs /\ createPrintJob(h, MaxPages, FALSE)
    \/ \E timer \in timers : cleanupPrintJob(timer)
    \/ ticks < MaxTicks /\ Tick(CleanupDelay)

SpecLive ==
    /\ Init
    /\ [][NextLive]_vars
    /\ WF_vars(\E h \in 1 .. MaxActive : Upload(h) \/ Execute(h))

\* History: one conversation uploads a file in every millisecond and
\* confirms it; the printer is online and every print succeeds, one handler
\* at a time, until the History has overflowed.
NextHistory ==
    \/ /\ handlers = <<>>
       /\ ticks > Len(jobs)
       /\ ~Has(userSessions, "u1@c.us")
       /\ handleFileMessage("u1@c.us")
    \/ /\ handlers = <<>>
       /\ processPrintJobStart("u1@c.us", "ya")
    \/ \E h \in DOMAIN handlers :
         \/ createPrintJob(h, 1, FALSE)
         \/ startSession(h)
         \/ checkPrinter(h, TRUE)
         \/ firstAttempt(h)
         \/ printSucceeded(h)
         \/ finishPrintJob(h)
    \/ /\ handlers = <<>>
       /\ ~Has(userSessions, "u1@c.us")
       /\ ticks = Len(jobs)
       /\ ticks < MaxHistoryJobs
       /\ Tick(1)

SpecHistory == Init /\ [][NextHistory]_vars

\* Duplex: one conversation uploads one file, opens the option menu and
\* types 4 again and again, one handler at a time.
NextDuplex ==
    \/ /\ msgCount = 0
       /\ handleFileMessage("u1@c.us")
    \/ /\ msgCount < MaxDuplexMsgs
       /\ handlers = <<>>
       /\ \/ confirmPrintOptions("u1@c.us", "opsi")
          \/ handleOptionsInput("u1@c.us", "4")
    \/ \E h \in DOMAIN handlers :
         \/ \E hasColor \in BOOLEAN : createPrintJob(h, MaxPages, hasColor)
         \/ startSession(h)
         \/ reshowPrintOptions(h)
         \/ showPrintOptions(h)
    \/ ticks < MaxDuplexTicks /\ Tick(1)

SpecDuplex == Init /\ [][NextDuplex]_vars

\* Idle sessions: one conversation uploads one file and walks through the
\* option menu, one handler at a time, while the session sweep runs; the
\* clock moves by one millisecond or by the idle timeout.
NextIdle ==
    \/ /\ msgCount = 0
       /\ handleFileMessage("u1@c.us")
    \/ /\ msgCount < MaxIdleMsgs
       /\ handlers = <<>>
       /\ \/ confirmPrintOptions("u1@c.us", "opsi")
          \/ \E response \in {"1", "5"} : handleOptionsInput("u1@c.us", response)
          \/ handleCopiesInput("u1@c.us", "7")
    \/ \E h \in DOMAIN handlers :
         \/ createPrintJob(h, MaxPages, FALSE)
         \/ startSession(h)
         \/ Negotiate(h)
    \/ cleanupOldSessions
    \/ ticks < MaxIdleTicks /\ \E d \in {1, SessionTimeout} : Tick(d)

SpecIdle == Init /\ [][NextIdle]_vars

\* Two conversations: each uploads one file and confirms it, u2 after a look
\* at the option menu; a conversation sends its next message when its last
\* one has been handled, and does not wait for the other conversation. The
\* prints of u1 may fail and be retried; the print of u2 succeeds at once.
Busy(chatId) == \E h \in DOMAIN handlers : handlers[h].chat = chatId

NextParallel ==
    \/ /\ msgCount < MaxParallelMsgs
       /\ \E chatId \in Chats :
            /\ ~Busy(chatId)
            /\ \/ /\ \A ref \in DOMAIN jobs : jobs[ref].chatId # chatId
                  /\ handleFileMessage(chatId)
               \/ processPrintJobStart(chatId, "ya")
               \/ chatId = "u2@c.us" /\ confirmPrintOptions(chatId, "opsi")
               \/ chatId = "u2@c.us" /\ handleOptionsInput(chatId, "5")
    \/ \E h \in DOMAIN handlers :
         \/ createPrintJob(h, MaxPages, FALSE)
         \/ startSession(h)
         \/ Negotiate(h)
         \/ handlers[h].chat = "u1@c.us" /\ Execute(h)
         \/ /\ handlers[h].chat = "u2@c.us"
            /\ \/ checkPrinter(h, TRUE)
               \/ firstAttempt(h)
               \/ printSucceeded(h)
               \/ finishPrintJob(h)
    \/ ticks < MaxParallelTicks /\ Tick(1)

SpecParallel == Init /\ [][NextParallel]_vars

\* Abandoned jobs: one conversation uploads files and never confirms them;
\* both periodic sweeps run, and the clock moves by the idle timeout or by
\* the maximal age of a job. The intervals of the sweeps keep firing and
\* every await of a handler eventually resolves.
NextAbandon ==
    \/ /\ msgCount < MaxAbandonMsgs
       /\ handlers = <<>>
       /\ handleFileMessage("u1@c.us")
    \/ \E h \in DOMAIN handlers :
         \/ Upload(h)
         \/ createPrintJob(h, MaxPages, FALSE)
    \/ cleanupOldSessions
    \/ cleanupOldPrintJobs({})
    \/ ticks < MaxAbandonTicks /\ \E d \in {SessionTimeout, maxAge} : Tick(d)

SpecAbandon ==
    /\ Init
    /\ [][NextAbandon]_vars
    /\ WF_vars(cleanupOldSessions)
    /\ WF_vars(cleanupOldPrintJobs({}))
    /\ WF_vars(Upload(1) \/ createPrintJob(1, MaxPages, FALSE))

\* Range of copies: the configured defaultCopies is 1 or 10; one
\* conversation uploads one file, opens the option menu and types numbers
\* of copies, in and out of range, one handler at a time.
InitRange ==
    /\ InitStores
    /\ config \in [defaultCopies : {1, 10},
                   enableRateLimit : {FALSE},
                   maxRequestsPerHour : {50},
                   adminNumbers : {{}}]

NextRange ==
    \/ /\ msgCount = 0
       /\ handleFileMessage("u1@c.us")
    \/ /\ msgCount < MaxRangeMsgs
       /\ handlers = <<>>
       /\ \/ confirmPrintOptions("u1@c.us", "opsi")
          \/ handleOptionsInput("u1@c.us", "1")
          \/ \E response \in {"0", "1", "10", "11", "7x", "x"} :
               handleCopiesInput("u1@c.us", response)
    \/ \E h \in DOMAIN handlers :
         \/ \E hasColor \in BOOLEAN : createPrintJob(h, MaxPages, hasColor)
         \/ startSession(h)
         \/ replyEnd(h)
         \/ Negotiate(h)

SpecRange == InitRange /\ [][NextRange]_vars

\* Rate limiter: u1 is rate limited, u2 is on the admin allowlist; the clock
\* moves by one millisecond or by one millisecond less than an hour.
InitRate ==
    /\ InitStores
    /\ config \in [defaultCopies : {1},
                   enableRateLimit : {TRUE},
                   maxRequestsPerHour : 1 .. MaxRequestsPerHour,
                   adminNumbers : {{"u2"}}]

NextRate ==
    \/ /\ msgCount < MaxRateMsgs
       /\ Len(handlers) < MaxActive
       /\ \E chatId \in Chats :
            \/ sendHelpMessage(chatId)
            \/ handleMessageDenied(chatId)
    \/ \E h \in DOMAIN handlers : replyEnd(h)
    \/ ticks < MaxRateTicks /\ \E d \in {1, HourMs - 1} : Tick(d)

SpecRate == InitRate /\ [][NextRate]_vars

\* ------------------------------------------------------------------ claims
Terminal == {"completed", "failed"}

\* the awaits of the submit sequence: health check, print attempt, retry delay
Submitting == {"ppj_check", "ppj_sending", "ppj_print", "ppj_delay"}

\* run h takes this step, and no run arrives or returns in it
Stepped(h) ==
    /\ h \in DOMAIN handlers
    /\ Len(handlers') = Len(handlers)
    /\ handlers'[h] # handlers[h]

\* C1: once a job's status is completed or failed it never changes again.
C1_TerminalIsFinal ==
    [][\A ref \in DOMAIN jobs :
          jobs[ref].status \in Terminal
              => jobs'[ref].status = jobs[ref].status]_vars

\* C2: over its whole lifetime a job is sent to the printer at most 3 times.
C2_AtMostThreePrints ==
    \A ref \in DOMAIN printCalls : printCalls[ref] <= 3

\* C3: no two runs of the submit sequence are in progress for the same job id.
C3_NoOverlappingSubmissions ==
    \A g, h \in DOMAIN handlers :
        (g # h /\ handlers[g].pc \in Submitting /\ handlers[h].pc \in Submitting)
            => handlers[g].jobId # handlers[h].jobId

\* the admissions of userNumber in the 60 minutes that end at time t
InWindow(userNumber, t) ==
    {i \in DOMAIN admitted[userNumber] :
        admitted[userNumber][i] > t - HourMs /\ admitted[userNumber][i] <= t}

\* C4: for a sender that is not an admin, the calls of checkRateLimit that
\* returned true within any trailing 60-minute window number at most
\* maxRequestsPerHour (a window ends at some time t and holds the times
\* later than t - 60 min; the fullest windows end at an admission).
C4_RateWindow ==
    \A userNumber \in DOMAIN admitted :
        \A i \in DOMAIN admitted[userNumber] :
            Cardinality(InWindow(userNumber, admitted[userNumber][i]))
                <= config.maxRequestsPerHour

\* a sender admitted more often than the cap in all, with a full window
C4_Witness ==
    \E userNumber \in DOMAIN admitted :
        /\ Len(admitted[userNumber]) > config.maxRequestsPerHour
        /\ \E i \in DOMAIN admitted[userNumber] :
              Cardinality(InWindow(userNumber, admitted[userNumber][i]))
                  = config.maxRequestsPerHour
        /\ \E h \in DOMAIN handlers : handlers[h].pc = "reply_end"

\* C5: copies, print options and estimated cost of a job that is printing,
\* completed or failed are never changed.
C5_NonPendingJobUnchanged ==
    [][\A ref \in DOMAIN jobs :
          jobs[ref].status \in {"printing", "completed", "failed"}
              => /\ jobs'[ref].copies = jobs[ref].copies
                 /\ jobs'[ref].estimatedCost = jobs[ref].estimatedCost
                 /\ printOptions'[ref] = printOptions[ref]]_vars

\* C6: every job in the Job Store has
\* estimatedCost = pageCount x copies x (2000 if colour, else 500).
C6_CostMatchesCopies ==
    \A id \in DOMAIN printQueue :
        LET ref == printQueue[id]
        IN  jobs[ref].estimatedCost =
                jobs[ref].pageCount * jobs[ref].copies
                * (IF printOptions[ref].color THEN 2000 ELSE 500)

\* C7: when the health check of a submission reports the printer offline, the
\* job's status becomes failed, the submission goes to its offline reply and
\* from there makes no print attempt.
C7_OfflineFailsWithoutPrint ==
    [][\A h \in DOMAIN handlers :
          /\ (/\ Stepped(h)
              /\ handlers[h].pc = "ppj_check"
              /\ handlers'[h].pc # "ppj_catch"
              /\ ~printerStatus'.online)
                 => /\ jobs'[handlers[h].job].status = "failed"
                    /\ handlers'[h].pc = "ppj_offline"
                    /\ handlers'[h].outcomes = <<>>
                    /\ printCalls' = printCalls
          /\ (Stepped(h) /\ handlers[h].pc \in {"ppj_offline", "ppj_catch"})
                 => /\ handlers'[h].pc = "ppj_catch"
                    /\ printCalls' = printCalls]_vars

\* a submission stopped by the health check, before any print of its job
C7_Witness ==
    \E h \in DOMAIN handlers :
        /\ handlers[h].pc = "ppj_offline"
        /\ handlers[h].outcomes = <<>>
        /\ ~printerStatus.online
        /\ jobs[handlers[h].job].status = "failed"
        /\ printCalls[handlers[h].job] = 0

C9_SuccessRecorded ==
    [][\A h \in DOMAIN handlers :
          (Stepped(h) /\ handlers[h].pc = "ppj_print"
                      /\ handlers'[h].pc = "ppj_success")
              => LET ref == handlers[h].job
                     owner == jobs[ref].userNumber
                 IN  /\ jobs'[ref].status = "completed"
                     /\ Len(printHistory') = Len(printHistory) + 1
                     /\ SubSeq(printHistory', 2, Len(printHistory'))
                            = printHistory
                     /\ printHistory'[1].job.id = jobs[ref].id
                     /\ printHistory'[1].job.status = "completed"
                     /\ userStats'[owner].totalPrints
                            = userStats[owner].totalPrints + 1
                     /\ userStats'[owner].totalPages
                            = userStats[owner].totalPages
                              + jobs[ref].pageCount * jobs[ref].copies]_vars

\* C10: when a submission has exhausted its attempts the job is failed, its
\* failure time is recorded and History gains an entry for it with status
\* failed.
C10_FailureRecorded ==
    [][\A h \in DOMAIN handlers :
          (Stepped(h) /\ handlers[h].pc = "ppj_print"
                      /\ handlers'[h].pc = "ppj_failed")
              => LET ref == handlers[h].job
                 IN  /\ jobs'[ref].status = "failed"
                     /\ jobs'[ref].failedAt # NoTime
                     /\ Len(printHistory') = Len(printHistory) + 1
                     /\ printHistory'[1].job.id = jobs[ref].id
                     /\ printHistory'[1].job.status = "failed"]_vars

\* the awaits of processPrintJob once the job was found
SubmissionPcs == {"ppj_check", "ppj_offline", "ppj_sending", "ppj_print",
                  "ppj_delay", "ppj_success", "ppj_failed", "ppj_catch"}

\* run h returns in this step
Returned(h) ==
    /\ h \in DOMAIN handlers
    /\ handlers' = SubSeq(handlers, 1, h - 1)
                   \o SubSeq(handlers, h + 1, Len(handlers))

\* C11: a submission that returns, whatever its outcome, has scheduled the
\* deferred removal of its job: a cleanup timer for its job id is pending.
C11_SubmissionSchedulesRemoval ==
    [][\A h \in DOMAIN handlers :
          (handlers[h].pc \in SubmissionPcs /\ Returned(h))
              => \E timer \in timers' :
                    /\ timer.printJobId = handlers[h].jobId
                    /\ timer.due = now + CleanupDelay]_vars

\* C12: when the handling of a confirming input returns, the conversation
\* has no session that references the submitted job.
C12_SessionDeletedOnConfirm ==
    [][\A h \in DOMAIN handlers :
          (handlers[h].pc \in SubmissionPcs /\ Returned(h))
              => ~ /\ Has(userSessions', handlers[h].chat)
                   /\ userSessions'[handlers[h].chat].printJobId
                          = handlers[h].jobId]_vars

\* the conversation is in step confirm_print and its job is pending
PendingConfirm(chatId) ==
    /\ Has(userSessions, chatId)
    /\ userSessions[chatId].step = "confirm_print"
    /\ Has(printQueue, userSessions[chatId].printJobId)
    /\ jobs[printQueue[userSessions[chatId].printJobId]].status = "pending"

\* C13: in step confirm_print with a pending job, handling a cancelling
\* input or the /cancel command removes the job from the Job Store and
\* deletes the session of the conversation.
C13_CancelRemovesJob ==
    [][\A chatId \in Chats :
          (/\ PendingConfirm(chatId)
           /\ \/ \E response \in Cancelling : cancelPrintJob(chatId, response)
              \/ handleCommandUndefined(chatId))
              => /\ ~Has(printQueue', userSessions[chatId].printJobId)
                 /\ ~Has(userSessions', chatId)]_vars

\* C14: a handler that found the job of the session absent from the Job
\* Store leaves the conversation without a session when it returns.
C14_MissingJobDropsSession ==
    [][\A h \in DOMAIN handlers :
          (handlers[h].pc \in {"ppj_notfound", "notfound_reply"}
           /\ Returned(h))
              => ~Has(userSessions', handlers[h].chat)]_vars

\* C15: a run of the session sweep at time now removes every session with
\* now - lastActivity > 15 minutes, retains every other session as it was,
\* and leaves the Job Store and the jobs unchanged.
C15_SessionSweep ==
    [][cleanupOldSessions
         => /\ \A chatId \in DOMAIN userSessions :
                 IF now - userSessions[chatId].lastActivity > 15 * 60 * 1000
                 THEN ~Has(userSessions', chatId)
                 ELSE /\ Has(userSessions', chatId)
                      /\ userSessions'[chatId] = userSessions[chatId]
            /\ printQueue' = printQueue
            /\ jobs' = jobs
            /\ printOptions' = printOptions]_vars

\* after a sweep: a pending job in the Job Store whose conversation has lost
\* its session
C15_Witness ==
    /\ swept.sessions > 0
    /\ handlers = <<>>
    /\ \E id \in DOMAIN printQueue :
          /\ jobs[printQueue[id]].status = "pending"
          /\ ~Has(userSessions, jobs[printQueue[id]].chatId)
          /\ now - jobs[printQueue[id]].createdAt > 15 * 60 * 1000

\* C16: after a run of the job sweep at time now, no job that is completed
\* or failed and older than 1 hour is in the Job Store, and the backing file
\* of every job the sweep removed is gone.
C16_JobSweep ==
    [][(\E throwing \in SUBSET DOMAIN printQueue : cleanupOldPrintJobs(throwing))
         => /\ \A jobId \in DOMAIN printQueue' :
                 ~ /\ jobs'[printQueue'[jobId]].status \in Terminal
                   /\ now - jobs'[printQueue'[jobId]].createdAt > 60 * 60 * 1000
            /\ \A jobId \in (DOMAIN printQueue) \ DOMAIN printQueue' :
                 jobs[printQueue[jobId]].filePath \notin files']_vars

\* the requests of userNumber that passed the rate limiter
TotalRequests(userNumber) ==
    IF Has(userStats, userNumber) THEN userStats[userNumber].totalRequests
    ELSE 0

\* C17: handling a message that the rate limiter denies (with or without an
\* attachment) records no timestamp for the sender, creates no job and no
\* file, and leaves the Session Store and the UserStat map unchanged, both
\* when the message arrives and when the reply of its handler resolves.
C17_DeniedNoSideEffects ==
    [][/\ \A chatId \in Chats :
            handleMessageDenied(chatId)
                => LET userNumber == UserNumber(chatId)
                       before == IF Has(rateLimit, userNumber)
                                 THEN rateLimit[userNumber] ELSE <<>>
                       after == rateLimit'[userNumber]
                   IN  /\ Len(after) <= Len(before)
                       /\ \A i \in DOMAIN after :
                             \E j \in DOMAIN before : after[i] = before[j]
                       /\ jobs' = jobs
                       /\ printQueue' = printQueue
                       /\ files' = files
                       /\ userSessions' = userSessions
                       /\ userStats' = userStats
       /\ \A h \in DOMAIN handlers :
            (handlers[h].pc = "reply_end" /\ Returned(h))
                => /\ rateLimit' = rateLimit
                   /\ jobs' = jobs
                   /\ printQueue' = printQueue
                   /\ files' = files
                   /\ userSessions' = userSessions
                   /\ userStats' = userStats]_vars

\* a denied message is being answered: more messages arrived than passed the
\* rate limiter, and the sender of a pending reply is at the cap
C17_Witness ==
    /\ msgCount > TotalRequests("u1") + TotalRequests("u2")
    /\ \E h \in DOMAIN handlers :
          /\ handlers[h].pc = "reply_end"
          /\ Limited(handlers[h].chat)
          /\ ~RateLimitAllows(UserNumber(handlers[h].chat), now)

\* the conversation is in step set_copies and its job is pending
PendingCopies(chatId) ==
    /\ Has(userSessions, chatId)
    /\ userSessions[chatId].step = "set_copies"
    /\ Has(printQueue, userSessions[chatId].printJobId)
    /\ jobs[printQueue[userSessions[chatId].printJobId]].status = "pending"

\* C18: in step set_copies with a pending job, the input n in 1..10 sets
\* copies to n and estimatedCost to n times the cost at 1 copy; the handler
\* of that input then shows the option menu and returns with the session in
\* step set_options.
C18_CopiesInput ==
    [][/\ \A chatId \in Chats : \A n \in 1 .. 10 :
            (PendingCopies(chatId) /\ handleCopiesInput(chatId, Digits(n)))
                => LET ref == printQueue[userSessions[chatId].printJobId]
                   IN  /\ jobs'[ref].copies = n
                       /\ jobs'[ref].estimatedCost
                             = n * jobs[ref].pageCount
                                 * (IF printOptions[ref].color THEN 2000
                                    ELSE 500)
                       /\ handlers'[Len(handlers')].pc = "hci_reply"
       /\ \A h \in DOMAIN handlers :
            (handlers[h].pc = "hci_reply" /\ Stepped(h))
                => handlers'[h].pc = "spo_reply"
       /\ \A h \in DOMAIN handlers :
            (handlers[h].pc = "spo_reply" /\ Returned(h))
                => /\ Has(userSessions', handlers[h].chat)
                   /\ userSessions'[handlers[h].chat].step = "set_options"]_vars

\* C19: every job whose status is printing eventually has status completed
\* or failed, and no step of a message handler taken while a job of the Job
\* Store is printing removes that job from the Job Store or returns it to
\* pending.
C19_PrintingRunsToTerminal ==
    /\ \A ref \in 1 .. MaxJobs :
          (ref \in DOMAIN jobs /\ jobs[ref].status = "printing")
              ~> (ref \in DOMAIN jobs /\ jobs[ref].status \in Terminal)
    /\ [][\A jobId \in DOMAIN printQueue :
            (/\ jobs[printQueue[jobId]].status = "printing"
             /\ (msgCount' # msgCount \/ handlers' # handlers))
                => /\ Has(printQueue', jobId)
                   /\ printQueue'[jobId] = printQueue[jobId]
                   /\ jobs'[printQueue[jobId]].status # "pending"]_vars

\* C20: job ids are unique: the step that creates a job stores it under an
\* id that no entry of the Job Store has, so no entry is overwritten.
C20_UniqueJobIds ==
    [][Len(jobs') > Len(jobs)
         => /\ ~Has(printQueue, jobs'[Len(jobs')].id)
            /\ \A jobId \in DOMAIN printQueue :
                  printQueue'[jobId] = printQueue[jobId]]_vars

\* C21: a message from a sender on the admin allowlist is never denied by
\* the rate limiter, and no step gives such a sender an entry in the
\* RateWindow map or changes one.
C21_AdminBypass ==
    [][\A chatId \in Chats :
          isAdmin(UserNumber(chatId))
              => /\ ~handleMessageDenied(chatId)
                 /\ ~Has(rateLimit', UserNumber(chatId))]_vars

\* an admin has sent more messages than the hourly cap within one hour, and
\* the last of them is being answered
C21_Witness ==
    /\ config.enableRateLimit
    /\ isAdmin("u2")
    /\ TotalRequests("u2") > config.maxRequestsPerHour
    /\ now < HourMs
    /\ \E h \in DOMAIN handlers : handlers[h].chat = "u2@c.us"

\* C22: an entry of the History never changes once appended: in every step
\* each entry keeps its fields (status, copies, cost, timestamps) and its
\* print options, at the place the new entries at the head have moved it to.
C22_HistoryImmutable ==
    [][\A i \in DOMAIN printHistory :
          LET j == i + Len(printHistory') - Len(printHistory)
          IN  (Len(printHistory') >= Len(printHistory)
               /\ Len(printHistory') <= HistoryCap)
                  => /\ printHistory'[j].job = printHistory[i].job
                     /\ printOptions'[printHistory'[j].printOptions]
                           = printOptions[printHistory[i].printOptions]]_vars

\* C23: the History never holds more than 100 entries and is ordered by
\* completion time, most recent first; a step that changes it puts one new
\* entry at the head, keeps the order of the others and drops only what
\* lies beyond the 100th place.
C23_HistoryBounded ==
    /\ [](/\ Len(printHistory) <= 100
          /\ \A i, j \in DOMAIN printHistory :
                i < j => printHistory[i].job.completedAt
                            >= printHistory[j].job.completedAt)
    /\ [][printHistory' # printHistory
            => /\ Len(printHistory') = IF Len(printHistory) < 100
                                       THEN Len(printHistory) + 1 ELSE 100
               /\ printHistory'[1].job.completedAt = now
               /\ \A i \in 2 .. Len(printHistory') :
                     printHistory'[i] = printHistory[i - 1]]_vars

\* the History is full and has dropped its oldest entry: more jobs have
\* completed than it holds, the last of them in the current millisecond
C23_Witness ==
    /\ Len(printHistory) = 100
    /\ Len(jobs) > 100
    /\ jobs[Len(jobs)].status = "completed"
    /\ printHistory[1].job.id = jobs[Len(jobs)].id
    /\ printHistory[100].job.id = jobs[2].id

\* the conversation is in the given step and the job of its session is in
\* the Job Store
InStep(chatId, step) ==
    /\ Has(userSessions, chatId)
    /\ userSessions[chatId].step = step
    /\ Has(printQueue, userSessions[chatId].printJobId)

\* the await at which the run of the message that arrives in this step
\* is suspended
Arrived == handlers'[Len(handlers')].pc

\* C24: the session step follows the transition table. With the job of the
\* session in the Job Store when the input arrives: OPSI, OPTION or SETTING in
\* confirm_print leads to set_options, 1 in set_options to set_copies, 5 in
\* set_options to confirm_print, a value in 1..10 in set_copies to
\* set_options, and the handler of any unrecognised input returns with the
\* Session Store as it was.
C24_TransitionTable ==
    [][/\ \A chatId \in Chats :
            /\ (/\ InStep(chatId, "confirm_print")
                /\ \E response \in OptionWords :
                      confirmPrintOptions(chatId, response))
                   => Arrived = "spo_reply"
            /\ (InStep(chatId, "set_options") /\ handleOptionsInput(chatId, "1"))
                   => Arrived = "hoi_copies_reply"
            /\ (InStep(chatId, "set_options") /\ handleOptionsInput(chatId, "5"))
                   => Arrived = "suc_reply"
            /\ (/\ InStep(chatId, "set_copies")
                /\ \E n \in 1 .. 10 : handleCopiesInput(chatId, Digits(n)))
                   => Arrived = "hci_reply"
            /\ (\/ confirmPrintInvalid(chatId, "x")
                \/ InStep(chatId, "set_options")
                      /\ \E response \in {"9", "x"} :
                            handleOptionsInput(chatId, response)
                \/ InStep(chatId, "set_copies")
                      /\ \E response \in {"0", "11", "x"} :
                            handleCopiesInput(chatId, response))
                   => Arrived = "reply_end"
       /\ \A h \in DOMAIN handlers :
            /\ (handlers[h].pc = "hci_reply" /\ Stepped(h))
                   => handlers'[h].pc = "spo_reply"
            /\ (handlers[h].pc = "spo_reply" /\ Returned(h))
                   => /\ Has(userSessions', handlers[h].chat)
                      /\ userSessions'[handlers[h].chat].step = "set_options"
            /\ (handlers[h].pc = "hoi_copies_reply" /\ Returned(h))
                   => /\ Has(userSessions', handlers[h].chat)
                      /\ userSessions'[handlers[h].chat].step = "set_copies"
            /\ (handlers[h].pc = "suc_reply" /\ Returned(h))
                   => /\ Has(userSessions', handlers[h].chat)
                      /\ userSessions'[handlers[h].chat].step = "confirm_print"
            /\ (handlers[h].pc = "reply_end" /\ Returned(h))
                   => userSessions' = userSessions]_vars

\* C25: in step set_options with the job in the Job Store, the handling of
\* input 2 or 3 completes normally: the process keeps running and the run of
\* the message goes on to a reply, with the session in step set_options.
C25_QualityAndPaperSize ==
    [][\A chatId \in Chats : \A response \in {"2", "3"} :
          showQualityOrPaperSize(chatId, response)
              => /\ running'
                 /\ Len(handlers') = Len(handlers) + 1
                 /\ userSessions'[chatId].step = "set_options"]_vars

\* the conversation is in step set_options and its job is pending
PendingOptions(chatId) ==
    /\ InStep(chatId, "set_options")
    /\ jobs[printQueue[userSessions[chatId].printJobId]].status = "pending"

\* C26: in step set_options with a pending job, input 4 flips duplex and
\* changes nothing else in the job or its print options; the handler of that
\* input changes nothing more and returns with the session in step
\* set_options; after an even number of inputs 4 the job is the one that was
\* uploaded, after an odd number it differs from it in duplex only.
C26_DuplexToggle ==
    /\ [][/\ \A chatId \in Chats :
                (PendingOptions(chatId) /\ handleOptionsInput(chatId, "4"))
                    => LET ref == printQueue[userSessions[chatId].printJobId]
                       IN  /\ printOptions'[ref].duplex = ~printOptions[ref].duplex
                           /\ printOptions'[ref].color = printOptions[ref].color
                           /\ printOptions'[ref].quality = printOptions[ref].quality
                           /\ printOptions'[ref].paperSize
                                 = printOptions[ref].paperSize
                           /\ jobs' = jobs
                           /\ userSessions' = userSessions
                           /\ Arrived = "hoi_duplex_reply"
           /\ \A h \in DOMAIN handlers :
                /\ (handlers[h].pc = "hoi_duplex_reply" /\ Stepped(h))
                       => /\ jobs' = jobs
                          /\ printOptions' = printOptions
                          /\ userSessions' = userSessions
                /\ (handlers[h].pc = "spo_reply" /\ Returned(h))
                       => /\ jobs' = jobs
                          /\ printOptions' = printOptions
                          /\ Has(userSessions', handlers[h].chat)
                          /\ userSessions'[handlers[h].chat].step
                                = "set_options"]_vars
    /\ []((handlers = <<>> /\ PendingOptions("u1@c.us") /\ msgCount >= 2)
            => /\ printOptions[1].duplex = (msgCount % 2 = 1)
               /\ printOptions[1].quality = "normal"
               /\ printOptions[1].paperSize = "A4"
               /\ jobs[1].copies = config.defaultCopies
               /\ jobs[1].estimatedCost
                     = jobs[1].pageCount
                         * (IF printOptions[1].color THEN 2000 ELSE 500))

\* 4 was typed twice in the option menu and both handlers have returned:
\* duplex is off again
C26_Witness ==
    /\ msgCount = 4
    /\ handlers = <<>>
    /\ PendingOptions("u1@c.us")
    /\ ~printOptions[1].duplex
    /\ userSessions["u1@c.us"].lastActivity > jobs[1].createdAt

\* inputs that are integers outside 1..10, and inputs that are not numeric
OutOfRange == {"0", "11"}
NotNumeric == {"x", "7x"}

\* C27: in step set_copies, an input that is an integer outside 1..10 or is
\* not numeric changes no job, and its handler replies and returns with the
\* jobs and the Session Store as they were.
C27_InvalidCopies ==
    [][/\ \A chatId \in Chats : \A response \in OutOfRange \cup NotNumeric :
            (InStep(chatId, "set_copies") /\ handleCopiesInput(chatId, response))
                => /\ jobs' = jobs
                   /\ userSessions' = userSessions
                   /\ Arrived = "reply_end"
       /\ \A h \in DOMAIN handlers :
            (handlers[h].pc = "reply_end" /\ Returned(h))
                => /\ jobs' = jobs
                   /\ userSessions' = userSessions]_vars

\* C28: every session transition refreshes last-activity: the handler of a
\* recognised input that sets the session step leaves lastActivity at the
\* time of that step, and a session sweep keeps, as it is, every session
\* whose step was set by such a handler less than 15 minutes earlier.
C28_TransitionRefreshes ==
    [][/\ \A h \in DOMAIN handlers :
            (/\ handlers[h].pc \in {"spo_reply", "hoi_copies_reply", "suc_reply"}
             /\ Returned(h))
                => /\ Has(userSessions', handlers[h].chat)
                   /\ userSessions'[handlers[h].chat].lastActivity = now
       /\ cleanupOldSessions
            => \A chatId \in DOMAIN userSessions :
                  (/\ Has(handled, chatId)
                   /\ now - handled[chatId] < 15 * 60 * 1000)
                      => /\ Has(userSessions', chatId)
                         /\ userSessions'[chatId] = userSessions[chatId]]_vars

\* a sweep has just run on a session that was created more than 15 minutes
\* ago and whose step was set by the option menu one millisecond ago: the
\* session is still there
C28_Witness ==
    /\ swept.sessionSweepAt = now
    /\ handlers = <<>>
    /\ Has(userSessions, "u1@c.us")
    /\ userSessions["u1@c.us"].step = "set_options"
    /\ Has(handled, "u1@c.us")
    /\ handled["u1@c.us"] < now
    /\ now - handled["u1@c.us"] < SessionTimeout
    /\ now - jobs[1].createdAt > SessionTimeout

\* C29: timestamps follow status: every job that is printing, completed or
\* failed has a start time, every completed job a completion time and every
\* failed job a failure time.
C29_TimestampsFollowStatus ==
    \A ref \in DOMAIN jobs :
        /\ jobs[ref].status \in {"printing", "completed", "failed"}
              => jobs[ref].startedAt # NoTime
        /\ jobs[ref].status = "completed" => jobs[ref].completedAt # NoTime
        /\ jobs[ref].status = "failed" => jobs[ref].failedAt # NoTime

\* C30: a submission that an unexpected exception has taken to the catch
\* block ends with the job failed, the session of the conversation deleted
\* and the deferred removal of the job scheduled.
C30_SystemErrorIsTerminal ==
    [][\A h \in DOMAIN handlers :
          (handlers[h].pc = "ppj_catch" /\ Returned(h))
              => /\ jobs'[handlers[h].job].status = "failed"
                 /\ ~Has(userSessions', handlers[h].chat)
                 /\ \E timer \in timers' :
                       /\ timer.printJobId = handlers[h].jobId
                       /\ timer.due = now + CleanupDelay]_vars

\* C31: a submission that is suspended in a health check, a print attempt or
\* a retry delay blocks no other conversation: in every such state a message
\* of any other conversation can be taken, and every suspended handler of
\* another conversation can take its next step.
C31_NonBlocking ==
    \A h \in DOMAIN handlers :
        (running /\ handlers[h].pc \in Submitting)
            => /\ \A chatId \in Chats \ {handlers[h].chat} :
                     ENABLED handleFileMessage(chatId)
               /\ \A g \in DOMAIN handlers :
                     handlers[g].chat # handlers[h].chat
                         => ENABLED (\/ createPrintJob(g, MaxPages, FALSE)
                                     \/ Upload(g)
                                     \/ Negotiate(g)
                                     \/ Execute(g))

\* the submission of u1 is still suspended, and u2, whose file arrived after
\* that submission began, has had its job created, taken through the option
\* menu, submitted and completed
C31_Witness ==
    /\ \E h \in DOMAIN handlers :
          /\ handlers[h].chat = "u1@c.us"
          /\ handlers[h].pc \in Submitting
          /\ \E ref \in DOMAIN jobs :
                /\ jobs[ref].chatId = "u2@c.us"
                /\ jobs[ref].id # handlers[h].jobId
                /\ jobs[ref].createdAt > jobs[handlers[h].job].startedAt
                /\ jobs[ref].status = "completed"
    /\ ~Busy("u2@c.us")
    /\ Has(handled, "u2@c.us")
    /\ ~Has(userSessions, "u2@c.us")

\* the job object is the entry of the Job Store under its id
InStore(ref) ==
    /\ ref \in DOMAIN jobs
    /\ Has(printQueue, jobs[ref].id)
    /\ printQueue[jobs[ref].id] = ref

\* the job is in the Job Store, still pending, and neither a session nor a
\* suspended handler refers to it
Abandoned(ref) ==
    /\ InStore(ref)
    /\ jobs[ref].status = "pending"
    /\ \A chatId \in DOMAIN userSessions :
          userSessions[chatId].printJobId # jobs[ref].id
    /\ \A h \in DOMAIN handlers : handlers[h].job # ref

\* C32: a job abandoned before confirmation that is older than the maximal
\* age of the job sweep is eventually removed from the Job Store.
C32_AbandonedJobSwept ==
    \A ref \in 1 .. MaxAbandonMsgs :
        (Abandoned(ref) /\ now - jobs[ref].createdAt > 60 * 60 * 1000)
            ~> ~InStore(ref)

\* C33: no inbound message aborts its handling: the step that takes a
\* message leaves the process running and the handler of the message on its
\* way to a reply, whatever the text, command or attachment and whatever the
\* session step.
C33_NoInputAborts ==
    [][msgCount' = msgCount + 1
          => /\ running'
             /\ Len(handlers') = Len(handlers) + 1
             /\ handlers'[Len(handlers')].chat \in Chats]_vars

\* C34: a step in which the process exits, whether on a signal or on an
\* uncaught exception, leaves the stats snapshot of that moment in the stats
\* file and the Job Store and the Session Store empty.
C34_CrashShutdownFlushes ==
    [][(running /\ ~running')
          => /\ statsFile'.written
             /\ statsFile'.userStats = userStats
             /\ printQueue' = <<>>
             /\ userSessions' = <<>>]_vars

\* C35: the job sweep and the deferred-removal timer remove only jobs that
\* are completed or failed at the moment of removal.
C35_OnlyTerminalRemoved ==
    [][(\/ \E timer \in timers : cleanupPrintJob(timer)
        \/ \E throwing \in SUBSET DOMAIN printQueue :
              cleanupOldPrintJobs(throwing))
          => \A jobId \in (DOMAIN printQueue) \ DOMAIN printQueue' :
                jobs[printQueue[jobId]].status \in Terminal]_vars

\* C36: with the configured defaultCopies in 1..10, every job in the Job
\* Store has copies in 1..10.
C36_CopiesInRange ==
    config.defaultCopies \in 1 .. 10
        => \A jobId \in DOMAIN printQueue :
              jobs[printQueue[jobId]].copies \in 1 .. 10

\* 11 was typed in step set_copies and answered, after the copies had been
\* set to 10 from a smaller default: the job still has 10 copies
C36_Witness ==
    /\ config.defaultCopies = 1
    /\ msgCount = 6
    /\ handlers = <<>>
    /\ Has(userSessions, "u1@c.us")
    /\ userSessions["u1@c.us"].step = "set_copies"
    /\ Has(printQueue, userSessions["u1@c.us"].printJobId)
    /\ jobs[printQueue[userSessions["u1@c.us"].printJobId]].copies = 10

\* C37: a submission that finishes deletes only the session that dispatched
\* it: a session of the same conversation that references another job is
\* still there when the submission has returned.
C37_FinishKeepsNewerSession ==
    [][\A h \in DOMAIN handlers :
          (/\ finishPrintJob(h)
           /\ Has(userSessions, handlers[h].chat)
           /\ userSessions[handlers[h].chat].printJobId # handlers[h].jobId)
              => /\ Has(userSessions', handlers[h].chat)
                 /\ userSessions'[handlers[h].chat]
                        = userSessions[handlers[h].chat]]_vars

\* C38: each job is counted at most once: one job id has at most one entry
\* in History.
C38_CountedOnce ==
    \A i, j \in 1 .. Len(printHistory) :
        printHistory[i].job.id = printHistory[j].job.id => i = j

\* C39: whenever no message handler is suspended, no session references a
\* job whose status is completed or failed.
C39_NoSessionOnTerminalJob ==
    handlers = <<>>
        => \A chatId \in DOMAIN userSessions :
              Has(printQueue, userSessions[chatId].printJobId)
                  => jobs[printQueue[userSessions[chatId].printJobId]].status
                        \notin Terminal

====
